---- MODULE Spec2Model ----
(***************************************************************************)
(* wedutil: helpers that drive a Selenium driver against a wed editor.     *)
(*                                                                         *)
(* The model follows one test thread.  It calls the helpers of the module  *)
(* one after the other, possibly from inside its own                       *)
(* `with util.local_timeout(V):` blocks.  The state is the state the       *)
(* helpers read and write: util's default wait timeout, the open           *)
(* local_timeout blocks, the driver's script timeout, the                 *)
(* helper in progress with its locals, the poller's clock, and the         *)
(* exception in flight.                                                    *)
(*                                                                         *)
(* The editor and the browser are external.  A probe (a script run in the  *)
(* page, a lookup of an element) yields any of the outcomes the script can *)
(* produce; which one is chosen at the moment of the probe.                *)
(*                                                                         *)
(* util.wait, util.wait_until_not and util.local_timeout belong to         *)
(* selenic.util.Util.  Their source is not in src/ (only their callers     *)
(* are); they are modelled from section 4.1 of the specification.          *)
(***************************************************************************)
EXTENDS Naturals, Sequences, FiniteSets

VARIABLES
    module,          \* which source file the test imports
    osx,             \* util.osx
    D,               \* the default timeout configured on util at setup
    timeout,         \* util.timeout: the process-wide default wait timeout
    guards,          \* open local_timeout blocks, innermost first
    script_timeout,  \* the driver's script timeout
    helper,          \* the helper in progress ("none" between calls)
    arg,             \* wait_for_editor's timeout argument
    pc,              \* position in the helper in progress
    saved_timeout,   \* local of wait_for_editor / wait_for_first_validation_complete
    orig_size,       \* local of set_window_size
    resizes,         \* driver.set_window_size commands issued by this call
    mode,            \* "until" (util.wait) or "until_not" (util.wait_until_not)
    budget,          \* the timeout the wait in progress runs with
    elapsed,         \* time elapsed since that wait began
    polls,           \* invocations of the predicate made by that wait
    lastProbe,       \* outcome of the most recent probe of this call
    clicks,          \* clicks dispatched by click_until_caret_in (saturating)
    given,           \* click_until_caret_in's target argument ("none": omitted)
    target,          \* click_until_caret_in's target, once defaulted
    probed,          \* the element the most recent is_caret_in was asked about
    size,            \* the GUI root size the most recent cond of set_window_size read
    sent,            \* keys and event scripts a clipboard helper has handed over
    exc,             \* exception in flight
    outcome,         \* how the last call ended, until the test moves on
    entry            \* util.timeout, the open blocks and the script timeout at entry
                     \* to the call

\* What only click_until_caret_in, set_window_size, cut and paste write.
own == <<given, target, probed, size, sent>>

vars == <<module, osx, own, D, timeout, guards, script_timeout, resizes, helper, arg,
          pc,
          saved_timeout, orig_size, mode, budget, elapsed, polls, lastProbe,
          clicks, exc, outcome, entry>>

(***************************************************************************)
(* Bounds of the model.                                                    *)
(***************************************************************************)
MaxDefault == 2      \* default timeouts and caller overrides range over 1..MaxDefault
MaxDepth == 1        \* local_timeout blocks the test itself opens around a call
MaxDim == 2          \* widths and heights range over 1..MaxDim
MaxClicks == 2       \* the click counter saturates here

(***************************************************************************)
(* Constants of the program.                                               *)
(***************************************************************************)
EditorTimeout == 15            \* wait_for_editor(util, timeout=15)
FirstValidationTimeout == 15   \* wait_for_first_validation_complete
ValidationTimeout == 5         \* wait_for_validation_complete
SingleEditorTimeout == 15            \* the same three in wedutil.py
SingleFirstValidationTimeout == 15
SingleValidationTimeout == 5
PollInterval == 1              \* the poller's fixed delay between invocations

Timeouts == 1..MaxDefault
TimeoutArgs == Timeouts \cup {EditorTimeout}
Sizes == (1..MaxDim) \X (1..MaxDim)

WaitHelpers ==
    {"wait_for_caret_to_be_in", "set_window_size", "wait_for_editor",
     "wait_for_first_validation_complete", "wait_for_validation_complete",
     "wait_until_a_context_menu_is_not_visible", "wait_until_no_tooltip"}

\* Helpers that run one script or look one thing up, and return its result.
OneShotPackage ==
    {"is_caret_in", "caret_screen_pos", "caret_selection_pos",
     "point_in_selection", "gui_root", "get_label_visibility_level",
     "is_fatal_modal_present", "select_text_of_element_directly",
     "select_contents_directly", "select_directly"}

OneShotSingle ==
    {"is_caret_in", "caret_pos", "caret_selection_pos",
     "point_in_selection", "gui_root", "get_label_visibility_level",
     "is_fatal_modal_present", "select_text_of_element_directly",
     "select_contents_directly", "select_directly"}

OneShot(m) == IF m = "package" THEN OneShotPackage ELSE OneShotSingle

\* Helpers that send one ctrl-equivalent keystroke.
KeyHelpers(m) ==
    IF m = "package" THEN {"copy", "copy_add", "cut", "cut_add", "paste"}
    ELSE {}

Init ==
    /\ module \in {"package", "single"}
    /\ osx \in BOOLEAN
    /\ D \in Timeouts
    /\ timeout = D
    /\ guards = <<>>
    /\ script_timeout \in Timeouts
    /\ helper = "none"
    /\ arg = 0
    /\ pc = "idle"
    /\ saved_timeout = 0
    /\ orig_size = <<0, 0>>
    /\ resizes = 0
    /\ mode = "none"
    /\ budget = 0
    /\ elapsed = 0
    /\ polls = 0
    /\ lastProbe = "none"
    /\ clicks = 0
    /\ given = "none"
    /\ target = "none"
    /\ probed = "none"
    /\ size = <<0, 0>>
    /\ sent = <<>>
    /\ exc = "none"
    /\ outcome = "none"
    /\ entry = [timeout |-> 0, depth |-> 0, script |-> 0]

Min(a, b) == IF a < b THEN a ELSE b

(***************************************************************************)
(* selenic.util.Util, from section 4.1 of the specification.               *)
(***************************************************************************)

\* `with util.local_timeout(V):` on entry: the block keeps the default it
\* found and installs V.
local_timeout_enter(V, owner) ==
    /\ guards' = <<[saved |-> timeout, value |-> V, owner |-> owner]>> \o guards
    /\ timeout' = V

\* The block's exit, taken on every path out of it: the default the block
\* found on entry is put back.
local_timeout_exit ==
    /\ guards # <<>>
    /\ timeout' = Head(guards).saved
    /\ guards' = Tail(guards)

\* util.wait(cond) / util.wait_until_not(cond): the wait runs with the default
\* timeout current at the call.
util_wait_begin ==
    /\ pc = "wait"
    /\ budget' = timeout
    /\ elapsed' = 0
    /\ polls' = 0
    /\ pc' = "poll"
    /\ UNCHANGED <<module, osx, own, D, timeout, guards, script_timeout, resizes, helper,
                   arg, saved_timeout, orig_size, mode, lastProbe,
                   clicks, exc, outcome, entry>>

\* Whether an outcome of the predicate ends the wait with success.
Satisfied(m, o) ==
    \/ m = "until" /\ o = "truthy"
    \/ m = "until_not" /\ o = "falsy"

\* One invocation of the predicate by the poller.
util_wait_poll(o, s) ==
    /\ pc = "poll"
    /\ polls' = polls + 1
    /\ lastProbe' = o
    /\ size' = s
    /\ IF o = "raised"
         THEN exc' = "Error" /\ pc' = "waited"
         ELSE /\ exc' = exc
              /\ pc' = IF Satisfied(mode, o) THEN "waited" ELSE "sleep"
    /\ UNCHANGED <<module, osx, given, target, probed, sent, D, timeout, guards, script_timeout, resizes, helper,
                   arg, saved_timeout, orig_size, mode, budget,
                   elapsed, clicks, outcome, entry>>

\* Variant: the poller never looks at its budget.
util_wait_sleep_unchecked ==
    /\ pc = "sleep"
    /\ elapsed' = elapsed + PollInterval
    /\ pc' = "poll"
    /\ UNCHANGED <<module, osx, own, D, timeout, guards, script_timeout, resizes,
                   helper, arg, saved_timeout, orig_size, mode, budget,
                   polls, lastProbe, clicks, exc, outcome, entry>>

\* Variant: the poller gives up after a fixed number of invocations.
util_wait_sleep_capped ==
    /\ pc = "sleep"
    /\ elapsed' = elapsed + PollInterval
    /\ IF elapsed + PollInterval > budget \/ polls >= 3
         THEN exc' = "Timeout" /\ pc' = "waited"
         ELSE exc' = exc /\ pc' = "poll"
    /\ UNCHANGED <<module, osx, own, D, timeout, guards, script_timeout, resizes,
                   helper, arg, saved_timeout, orig_size, mode, budget,
                   polls, lastProbe, clicks, outcome, entry>>

\* The delay after an invocation that did not end the wait, and the check of
\* the budget that follows it.  The clock counts poll periods: an invocation
\* and the delay after it take one PollInterval together.
util_wait_sleep ==
    /\ pc = "sleep"
    /\ elapsed' = elapsed + PollInterval
    /\ IF elapsed + PollInterval > budget
         THEN exc' = "Timeout" /\ pc' = "waited"
         ELSE exc' = exc /\ pc' = "poll"
    /\ UNCHANGED <<module, osx, own, D, timeout, guards, script_timeout, resizes, helper,
                   arg, saved_timeout, orig_size, mode, budget,
                   polls, lastProbe, clicks, outcome, entry>>

(***************************************************************************)
(* What the probes of the helpers can observe.                             *)
(***************************************************************************)

\* Variant: cond tests the size read for equality with orig_size.
SizeCond_same(orig, s) == IF s = orig THEN "truthy" ELSE "falsy"

\* cond of set_window_size, when its script returns size s:
\* `return size != orig_size`.
SizeCond(orig, s) == IF s # orig THEN "truthy" ELSE "falsy"

\* The outcomes the predicate of helper h can have when invoked.
Predicate(h, orig) ==
    IF h = "set_window_size"
      THEN {SizeCond(orig, s) : s \in Sizes} \cup {"raised"}
      ELSE {"truthy", "falsy", "raised"}

\* Whether an invocation of h's predicate can end with outcome o having read
\* the GUI root size s (kept is the size read before: only set_window_size's
\* cond reads one, and only when its script runs).
Reads(h, orig, kept, o, s) ==
    IF h = "set_window_size" /\ o # "raised"
      THEN s \in Sizes /\ o = SizeCond(orig, s)
      ELSE s = kept

(***************************************************************************)
(* Entering and leaving a helper.                                          *)
(***************************************************************************)

Helpers(m) ==
    IF m = "package"
      THEN WaitHelpers \cup OneShotPackage \cup KeyHelpers(m)
             \cup {"click_until_caret_in"}
      ELSE WaitHelpers \cup OneShotSingle \cup {"cut", "paste"}

\* The test calls helper h: what every call records on entry.
Enter(h) ==
    /\ pc = "idle"
    /\ h \in Helpers(module)
    /\ helper' = h
    /\ entry' = [timeout |-> timeout, depth |-> Len(guards),
                 script |-> script_timeout]

\* The helper returns to the test, normally or with the exception in flight.
Leave ==
    /\ pc' = "done"
    /\ outcome' = IF exc = "none" THEN "returned" ELSE exc


\* The locals of a call, gone once the test has seen how it ended.
Forget ==
    /\ helper' = "none"
    /\ pc' = "idle"
    /\ arg' = 0
    /\ saved_timeout' = 0
    /\ orig_size' = <<0, 0>>
    /\ resizes' = 0
    /\ mode' = "none"
    /\ budget' = 0
    /\ elapsed' = 0
    /\ polls' = 0
    /\ lastProbe' = "none"
    /\ clicks' = 0
    /\ given' = "none"
    /\ target' = "none"
    /\ probed' = "none"
    /\ size' = <<0, 0>>
    /\ sent' = <<>>
    /\ exc' = "none"
    /\ outcome' = "none"
    /\ entry' = [timeout |-> 0, depth |-> 0, script |-> 0]

(***************************************************************************)
(* Helpers that wait on util's default timeout.                            *)
(***************************************************************************)

\* A helper whose body is `util.wait(cond)` or `util.wait_until_not(cond)`.
WaitCall(h, m) ==
    /\ Enter(h)
    /\ mode' = m
    /\ pc' = "wait"
    /\ UNCHANGED <<module, osx, own, D, timeout, guards, script_timeout, resizes,
                   arg, saved_timeout, orig_size, budget, elapsed,
                   polls, lastProbe, clicks, exc, outcome>>

\* Variant: the helper calls util.wait_until_not where it means util.wait.
wait_for_caret_to_be_in_inverted ==
    WaitCall("wait_for_caret_to_be_in", "until_not")

wait_for_caret_to_be_in == WaitCall("wait_for_caret_to_be_in", "until")

wait_until_a_context_menu_is_not_visible ==
    WaitCall("wait_until_a_context_menu_is_not_visible", "until_not")

\* Variant: the helper calls util.wait where it means util.wait_until_not.
wait_until_no_tooltip_inverted == WaitCall("wait_until_no_tooltip", "until")

wait_until_no_tooltip == WaitCall("wait_until_no_tooltip", "until_not")

PlainWaiters ==
    {"wait_for_caret_to_be_in", "set_window_size",
     "wait_until_a_context_menu_is_not_visible", "wait_until_no_tooltip"}

\* Variant: the helper catches what the wait raises and returns normally.
wait_return_swallowing ==
    /\ pc = "waited"
    /\ helper \in PlainWaiters
    /\ pc' = "done"
    /\ outcome' = "returned"
    /\ exc' = "none"
    /\ UNCHANGED <<module, osx, own, D, timeout, guards, script_timeout, resizes,
                   helper, arg, saved_timeout, orig_size, mode,
                   budget, elapsed, polls, lastProbe, clicks, entry>>

\* Variant: the helper starts the wait again when it timed out.
wait_return_retrying ==
    /\ pc = "waited"
    /\ helper \in PlainWaiters
    /\ IF exc = "Timeout"
         THEN pc' = "wait" /\ exc' = "none" /\ outcome' = outcome
         ELSE Leave /\ exc' = exc
    /\ UNCHANGED <<module, osx, own, D, timeout, guards, script_timeout, resizes,
                   helper, arg, saved_timeout, orig_size, mode,
                   budget, elapsed, polls, lastProbe, clicks, entry>>

\* The wait was the helper's last statement: what it returned or raised is
\* what the helper returns or raises.
wait_return ==
    /\ pc = "waited"
    /\ helper \in PlainWaiters
    /\ Leave
    /\ UNCHANGED <<module, osx, own, D, timeout, guards, script_timeout, resizes,
                   helper, arg, saved_timeout, orig_size, mode,
                   budget, elapsed, polls, lastProbe, clicks, exc, entry>>

(***************************************************************************)
(* set_window_size                                                         *)
(***************************************************************************)

\* The call, and the script that samples the GUI root's size into orig_size
\* (ok: the script ran).
set_window_size(width, height, sample, ok) ==
    /\ Enter("set_window_size")
    /\ width \in 1..MaxDim /\ height \in 1..MaxDim
    /\ mode' = "until"
    /\ IF ~ok
         THEN /\ exc' = "Error"
              /\ pc' = "done"
              /\ outcome' = "Error"
              /\ orig_size' = orig_size
         ELSE /\ exc' = exc
              /\ pc' = "resize"
              /\ outcome' = outcome
              /\ orig_size' = sample
    /\ UNCHANGED <<module, osx, own, D, timeout, guards, script_timeout, resizes,
                   arg, saved_timeout, budget, elapsed, polls, lastProbe,
                   clicks>>

\* driver.set_window_size(width, height)
set_window_size_resize ==
    /\ pc = "resize"
    /\ helper = "set_window_size"
    /\ resizes' = resizes + 1
    /\ pc' = "wait"
    /\ UNCHANGED <<module, osx, own, D, timeout, guards, script_timeout, helper,
                   arg, saved_timeout, orig_size, mode, budget,
                   elapsed, polls, lastProbe, clicks, exc, outcome, entry>>

(***************************************************************************)
(* Helpers that wait inside a local_timeout block.                         *)
(***************************************************************************)

\* Whether helper h of module m sets the driver's script timeout around its
\* wait.
SetsScriptTimeout(m, h) ==
    /\ m = "package"
    /\ h \in {"wait_for_editor", "wait_for_first_validation_complete"}

\* Variant: the value saved at entry is the driver's script timeout.
BlockCall_saving_script(h, t) ==
    /\ Enter(h)
    /\ arg' = t
    /\ mode' = "until"
    /\ pc' = "with"
    /\ IF SetsScriptTimeout(module, h)
         THEN saved_timeout' = script_timeout /\ script_timeout' = t
         ELSE UNCHANGED <<saved_timeout, script_timeout>>
    /\ UNCHANGED <<module, osx, own, D, timeout, guards, resizes, orig_size, budget, elapsed, polls, lastProbe, clicks, exc,
                   outcome>>

\* The call, up to the `with`: the helpers that set the script timeout save
\* util.timeout and install t as the script timeout.
BlockCall(h, t) ==
    /\ Enter(h)
    /\ arg' = t
    /\ mode' = "until"
    /\ pc' = "with"
    /\ IF SetsScriptTimeout(module, h)
         THEN saved_timeout' = timeout /\ script_timeout' = t
         ELSE UNCHANGED <<saved_timeout, script_timeout>>
    /\ UNCHANGED <<module, osx, own, D, timeout, guards, resizes, orig_size, budget, elapsed, polls, lastProbe, clicks, exc,
                   outcome>>

\* `with util.local_timeout(t):`
BlockWith(h) ==
    /\ pc = "with"
    /\ helper = h
    /\ local_timeout_enter(arg, "helper")
    /\ pc' = "wait"
    /\ UNCHANGED <<module, osx, own, D, script_timeout, resizes, helper, arg,
                   saved_timeout, orig_size, mode, budget, elapsed,
                   polls, lastProbe, clicks, exc, outcome, entry>>

\* The end of the `with` block, reached when the wait returned and when it
\* raised.  A helper with a statement after the block goes on to it only when
\* nothing was raised.
BlockExit(h) ==
    /\ pc = "waited"
    /\ helper = h
    /\ local_timeout_exit
    /\ IF exc = "none" /\ SetsScriptTimeout(module, h)
         THEN pc' = "reset" /\ outcome' = outcome
         ELSE Leave
    /\ UNCHANGED <<module, osx, own, D, script_timeout, resizes, helper, arg,
                   saved_timeout, orig_size, mode, budget, elapsed,
                   polls, lastProbe, clicks, exc, entry>>

\* driver.set_script_timeout(saved_timeout), the statement after the block.
BlockReset(h) ==
    /\ pc = "reset"
    /\ helper = h
    /\ script_timeout' = saved_timeout
    /\ Leave
    /\ UNCHANGED <<module, osx, own, D, timeout, guards, resizes, helper, arg,
                   saved_timeout, orig_size, mode, budget, elapsed,
                   polls, lastProbe, clicks, exc, entry>>

wait_for_editor(t) ==
    /\ IF module = "package" THEN t \in TimeoutArgs ELSE t = SingleEditorTimeout
    /\ BlockCall("wait_for_editor", t)

wait_for_editor_with == BlockWith("wait_for_editor")

\* Variant: the override is undone by a statement after the wait, which an
\* exception skips.
wait_for_editor_exit_unguarded ==
    /\ pc = "waited"
    /\ helper = "wait_for_editor"
    /\ IF exc = "none"
         THEN /\ local_timeout_exit
              /\ IF SetsScriptTimeout(module, helper)
                   THEN pc' = "reset" /\ outcome' = outcome
                   ELSE Leave
         ELSE Leave /\ UNCHANGED <<timeout, guards>>
    /\ UNCHANGED <<module, osx, own, D, script_timeout, resizes, helper, arg,
                   saved_timeout, orig_size, mode, budget, elapsed,
                   polls, lastProbe, clicks, exc, entry>>

\* Variant: leaving the override puts back the default configured at setup.
wait_for_editor_exit_to_default ==
    /\ pc = "waited"
    /\ helper = "wait_for_editor"
    /\ guards # <<>>
    /\ timeout' = D
    /\ guards' = Tail(guards)
    /\ IF exc = "none" /\ SetsScriptTimeout(module, helper)
         THEN pc' = "reset" /\ outcome' = outcome
         ELSE Leave
    /\ UNCHANGED <<module, osx, own, D, script_timeout, resizes, helper, arg,
                   saved_timeout, orig_size, mode, budget, elapsed,
                   polls, lastProbe, clicks, exc, entry>>

wait_for_editor_exit == BlockExit("wait_for_editor")

wait_for_editor_reset == BlockReset("wait_for_editor")

wait_for_first_validation_complete ==
    BlockCall("wait_for_first_validation_complete",
              IF module = "package" THEN FirstValidationTimeout
              ELSE SingleFirstValidationTimeout)

wait_for_first_validation_complete_with ==
    BlockWith("wait_for_first_validation_complete")

wait_for_first_validation_complete_exit ==
    BlockExit("wait_for_first_validation_complete")

wait_for_first_validation_complete_reset ==
    BlockReset("wait_for_first_validation_complete")

wait_for_validation_complete ==
    BlockCall("wait_for_validation_complete",
              IF module = "package" THEN ValidationTimeout
              ELSE SingleValidationTimeout)

\* Variant: the helper waits without opening the override block.
wait_for_validation_complete_without_block ==
    /\ pc = "with"
    /\ helper = "wait_for_validation_complete"
    /\ pc' = "wait"
    /\ UNCHANGED <<module, osx, own, D, timeout, guards, script_timeout, resizes,
                   helper, arg, saved_timeout, orig_size, mode, budget,
                   elapsed, polls, lastProbe, clicks, exc, outcome, entry>>

wait_for_validation_complete_with ==
    BlockWith("wait_for_validation_complete")

wait_for_validation_complete_exit ==
    BlockExit("wait_for_validation_complete")

(***************************************************************************)
(* click_until_caret_in                                                    *)
(***************************************************************************)

\* The targets a caller can pass: none, the element it clicks, another one.
Targets == {"none", "element", "other"}

\* The call: `if target is None: target = element`.
click_until_caret_in(t) ==
    /\ Enter("click_until_caret_in")
    /\ t \in Targets
    /\ given' = t
    /\ target' = IF t = "none" THEN "element" ELSE t
    /\ pc' = "click"
    /\ UNCHANGED <<module, osx, probed, size, sent, D, timeout, guards,
                   script_timeout, resizes, arg, saved_timeout, orig_size,
                   mode, budget, elapsed, polls, lastProbe, clicks, exc,
                   outcome>>

\* Variant: the caret is probed before the click, `while not is_caret_in(...)`.
click_until_caret_in_click_if_needed(ok) ==
    /\ pc = "click"
    /\ helper = "click_until_caret_in"
    /\ IF ok
         THEN /\ clicks' = IF lastProbe = "none" THEN clicks
                           ELSE Min(clicks + 1, MaxClicks)
              /\ pc' = "probe"
              /\ UNCHANGED <<exc, outcome>>
         ELSE /\ exc' = "Error"
              /\ pc' = "done"
              /\ outcome' = "Error"
              /\ clicks' = clicks
    /\ UNCHANGED <<module, osx, own, D, timeout, guards, script_timeout, resizes,
                   helper, arg, saved_timeout, orig_size, mode,
                   budget, elapsed, polls, lastProbe, entry>>

\* ActionChains(util.driver).click(element).perform() (ok: the driver
\* performed it).
click_until_caret_in_click(ok) ==
    /\ pc = "click"
    /\ helper = "click_until_caret_in"
    /\ IF ok
         THEN /\ clicks' = Min(clicks + 1, MaxClicks)
              /\ pc' = "probe"
              /\ UNCHANGED <<exc, outcome>>
         ELSE /\ exc' = "Error"
              /\ pc' = "done"
              /\ outcome' = "Error"
              /\ clicks' = clicks
    /\ UNCHANGED <<module, osx, own, D, timeout, guards, script_timeout, resizes,
                   helper, arg, saved_timeout, orig_size, mode,
                   budget, elapsed, polls, lastProbe, entry>>

\* if is_caret_in(util, target): break
click_until_caret_in_probe(o) ==
    /\ pc = "probe"
    /\ helper = "click_until_caret_in"
    /\ lastProbe' = o
    /\ probed' = target
    /\ polls' = Min(polls + 1, MaxClicks)
    /\ IF o = "falsy"
         THEN pc' = "click" /\ UNCHANGED <<exc, outcome>>
         ELSE /\ exc' = IF o = "raised" THEN "Error" ELSE exc
              /\ pc' = "done"
              /\ outcome' = IF o = "raised" THEN "Error" ELSE "returned"
    /\ UNCHANGED <<module, osx, given, target, size, sent, D, timeout, guards,
                   script_timeout, resizes, helper, arg, saved_timeout,
                   orig_size, mode, budget, elapsed, clicks, entry>>

(***************************************************************************)
(* Helpers that act once.                                                  *)
(***************************************************************************)

\* A helper that runs one script, looks one thing up or sends one keystroke
\* (ok: the driver did it), and returns.
Once(h, ok, events) ==
    /\ Enter(h)
    /\ sent' = events
    /\ exc' = IF ok THEN "none" ELSE "Error"
    /\ pc' = "done"
    /\ outcome' = IF ok THEN "returned" ELSE "Error"
    /\ UNCHANGED <<module, osx, given, target, probed, size, D, timeout, guards,
                   script_timeout, resizes, arg, saved_timeout, orig_size,
                   mode, budget, elapsed, polls, lastProbe, clicks>>

one_shot(h, ok) ==
    /\ h \in OneShot(module)
    /\ Once(h, ok, <<>>)

\* The key each clipboard helper hands to util.ctrl_equivalent_x.
Key(h) ==
    CASE h = "copy" -> "c"
      [] h = "copy_add" -> "C"
      [] h = "cut" -> "x"
      [] h = "cut_add" -> "X"
      [] h = "paste" -> "v"

ctrl_equivalent(h, ok) ==
    /\ h \in KeyHelpers(module)
    /\ Once(h, ok, <<Key(h)>>)

\* cut of wedutil.py: the keystroke, then on OS X the script that triggers
\* "cut" on the GUI root.
cut(ok) ==
    /\ module = "single"
    /\ Enter("cut")
    /\ sent' = <<Key("cut")>>
    /\ IF ok /\ osx
         THEN pc' = "trigger" /\ UNCHANGED <<exc, outcome>>
         ELSE /\ exc' = IF ok THEN "none" ELSE "Error"
              /\ pc' = "done"
              /\ outcome' = IF ok THEN "returned" ELSE "Error"
    /\ UNCHANGED <<module, osx, given, target, probed, size, D, timeout, guards,
                   script_timeout, resizes, arg, saved_timeout, orig_size,
                   mode, budget, elapsed, polls, lastProbe, clicks>>

cut_trigger(ok) ==
    /\ pc = "trigger"
    /\ helper = "cut"
    /\ sent' = Append(sent, "trigger cut")
    /\ exc' = IF ok THEN "none" ELSE "Error"
    /\ pc' = "done"
    /\ outcome' = IF ok THEN "returned" ELSE "Error"
    /\ UNCHANGED <<module, osx, given, target, probed, size, D, timeout, guards,
                   script_timeout, resizes, helper, arg, saved_timeout,
                   orig_size, mode, budget, elapsed, polls, lastProbe, clicks,
                   entry>>

\* Variant: paste sends its keystroke before it looks at util.osx.
paste_key_first(ok) ==
    /\ module = "single"
    /\ Enter("paste")
    /\ sent' = <<Key("paste")>>
    /\ exc' = IF osx \/ ~ok THEN "Error" ELSE "none"
    /\ pc' = "done"
    /\ outcome' = IF osx \/ ~ok THEN "Error" ELSE "returned"
    /\ UNCHANGED <<module, osx, given, target, probed, size, D, timeout, guards,
                   script_timeout, resizes, arg, saved_timeout, orig_size,
                   mode, budget, elapsed, polls, lastProbe, clicks>>

\* paste of wedutil.py: raises on OS X, sends the keystroke elsewhere.
paste(ok) ==
    /\ module = "single"
    /\ Enter("paste")
    /\ sent' = IF osx THEN <<>> ELSE <<Key("paste")>>
    /\ exc' = IF osx \/ ~ok THEN "Error" ELSE "none"
    /\ pc' = "done"
    /\ outcome' = IF osx \/ ~ok THEN "Error" ELSE "returned"
    /\ UNCHANGED <<module, osx, given, target, probed, size, D, timeout, guards,
                   script_timeout, resizes, arg, saved_timeout, orig_size,
                   mode, budget, elapsed, polls, lastProbe, clicks>>

(***************************************************************************)
(* The test around the calls.                                              *)
(***************************************************************************)

\* The test opens a `with util.local_timeout(V):` block of its own.
TestEnter(V) ==
    /\ pc = "idle"
    /\ Len(guards) < MaxDepth
    /\ local_timeout_enter(V, "test")
    /\ UNCHANGED <<module, osx, own, D, script_timeout, resizes, helper, arg,
                   pc, saved_timeout, orig_size, mode, budget,
                   elapsed, polls, lastProbe, clicks, exc, outcome, entry>>

\* The test leaves its innermost block.
TestExit ==
    /\ pc = "idle"
    /\ local_timeout_exit
    /\ UNCHANGED <<module, osx, own, D, script_timeout, resizes, helper, arg,
                   pc, saved_timeout, orig_size, mode, budget,
                   elapsed, polls, lastProbe, clicks, exc, outcome, entry>>

\* The call returned: the test goes on.
TestResume ==
    /\ pc = "done"
    /\ exc = "none"
    /\ Forget
    /\ UNCHANGED <<module, osx, D, timeout, guards, script_timeout>>

\* The call raised: the exception leaves the test's blocks, innermost first.
TestUnwind ==
    /\ pc \in {"done", "unwind"}
    /\ exc # "none"
    /\ local_timeout_exit
    /\ pc' = "unwind"
    /\ UNCHANGED <<module, osx, own, D, script_timeout, resizes, helper, arg,
                   saved_timeout, orig_size, mode, budget,
                   elapsed, polls, lastProbe, clicks, exc, outcome, entry>>

\* The exception has left every block: the test fails, the next one starts.
TestFail ==
    /\ pc \in {"done", "unwind"}
    /\ exc # "none"
    /\ guards = <<>>
    /\ Forget
    /\ UNCHANGED <<module, osx, D, timeout, guards, script_timeout>>

Outcomes == {"truthy", "falsy", "raised"}

Step ==
    \/ util_wait_begin
    \/ \E o \in Predicate(helper, orig_size), s \in Sizes \cup {size} :
          /\ Reads(helper, orig_size, size, o, s)
          /\ util_wait_poll(o, s)
    \/ util_wait_sleep
    \/ wait_return
    \/ set_window_size_resize
    \/ wait_for_editor_with
    \/ wait_for_editor_exit
    \/ wait_for_editor_reset
    \/ wait_for_first_validation_complete_with
    \/ wait_for_first_validation_complete_exit
    \/ wait_for_first_validation_complete_reset
    \/ wait_for_validation_complete_with
    \/ wait_for_validation_complete_exit
    \/ \E ok \in BOOLEAN : click_until_caret_in_click(ok)
    \/ \E o \in Outcomes : click_until_caret_in_probe(o)
    \/ \E ok \in BOOLEAN : cut_trigger(ok)

Call ==
    \/ wait_for_caret_to_be_in
    \/ wait_until_a_context_menu_is_not_visible
    \/ wait_until_no_tooltip
    \/ \E w \in 1..MaxDim, h \in 1..MaxDim, s \in Sizes, ok \in BOOLEAN :
          set_window_size(w, h, s, ok)
    \/ \E t \in TimeoutArgs : wait_for_editor(t)
    \/ wait_for_first_validation_complete
    \/ wait_for_validation_complete
    \/ \E t \in Targets : click_until_caret_in(t)
    \/ \E h \in OneShotPackage \cup OneShotSingle, ok \in BOOLEAN : one_shot(h, ok)
    \/ \E h \in KeyHelpers("package"), ok \in BOOLEAN : ctrl_equivalent(h, ok)
    \/ \E ok \in BOOLEAN : cut(ok)
    \/ \E ok \in BOOLEAN : paste(ok)

Test ==
    \/ \E V \in Timeouts : TestEnter(V)
    \/ TestExit
    \/ TestResume
    \/ TestUnwind
    \/ TestFail

Next == Step \/ Call \/ Test

Spec == Init /\ [][Next]_vars

\* A call in progress takes its next step: the test thread runs.
FairSpec == Spec /\ WF_vars(Step)

(***************************************************************************)
(* Properties.                                                             *)
(***************************************************************************)

\* The helpers that end with util.wait(cond) on the default timeout or inside
\* their own override block.
UntilHelpers ==
    {"wait_for_caret_to_be_in", "set_window_size", "wait_for_editor",
     "wait_for_first_validation_complete", "wait_for_validation_complete"}

UntilNotHelpers ==
    {"wait_until_a_context_menu_is_not_visible", "wait_until_no_tooltip"}

BlockHelpers ==
    {"wait_for_editor", "wait_for_first_validation_complete",
     "wait_for_validation_complete"}

\* The wait of the call in progress is over (it returned or raised).
WaitOver == pc \in {"waited", "reset", "done"} /\ polls >= 1

\* C1: a call of a helper built on util.wait returns normally exactly when an
\* invocation of its predicate, made while the budget was not yet exceeded,
\* returned a truthy value; no invocation follows a truthy one; and when the
\* invocations all returned falsy the call ends by raising Timeout.  (A
\* predicate that raises is the case of C4.)
C1_WaitContract ==
    helper \in UntilHelpers =>
      /\ lastProbe = "truthy" => pc \in {"waited", "reset", "done"}
      /\ WaitOver =>
           /\ exc = "none" <=> (lastProbe = "truthy" /\ elapsed <= budget)
           /\ lastProbe = "falsy" => exc = "Timeout"
           /\ exc = "Timeout" => lastProbe = "falsy"
      /\ pc = "done" => (outcome = "returned" <=> lastProbe = "truthy")

\* A call of wait_for_caret_to_be_in whose predicate was truthy on its first
\* invocation has returned, after that one invocation.
C1_Witness ==
    /\ pc = "done"
    /\ helper = "wait_for_caret_to_be_in"
    /\ outcome = "returned"
    /\ polls = 1
    /\ lastProbe = "truthy"

\* C2: when wait_for_editor, wait_for_first_validation_complete or
\* wait_for_validation_complete has left its local_timeout block, on whatever
\* path (the wait returned, timed out, or the predicate raised), util's default
\* timeout and the open blocks are those found at entry to the call.
C2_OverrideRestored ==
    (helper \in BlockHelpers /\ pc \in {"reset", "done"}) =>
      /\ timeout = entry.timeout
      /\ Len(guards) = entry.depth

\* wait_for_editor has ended with Timeout, having overridden a different
\* default.
C2_Witness ==
    /\ pc = "done"
    /\ helper = "wait_for_editor"
    /\ outcome = "Timeout"
    /\ arg # entry.timeout
    /\ timeout = entry.timeout

\* C3: util's default timeout is at every moment the value of the innermost
\* open override block, and the configured default D when none is open: leaving
\* a block leaves the value of the block around it, never D past an open block.
C3_NestedRestore ==
    /\ timeout = IF guards = <<>> THEN D ELSE Head(guards).value
    /\ \A i \in 1..Len(guards) :
         guards[i].saved = IF i = Len(guards) THEN D ELSE guards[i + 1].value

\* wait_for_editor, called inside a block of the test whose value V1 differs
\* from D, has left its own block (of another value), and the default is V1.
C3_Witness ==
    /\ helper = "wait_for_editor"
    /\ pc \in {"reset", "done"}
    /\ Len(guards) = 1
    /\ Head(guards).owner = "test"
    /\ timeout = Head(guards).value
    /\ timeout # D
    /\ arg # timeout

\* C4: once an invocation of the predicate has raised, the wait is over with
\* that error in flight: the predicate is not invoked again (the poller is
\* neither polling nor sleeping), the error is not a Timeout, and the helper
\* ends with it.
C4_PredicateErrorPropagates ==
    (helper \in WaitHelpers /\ lastProbe = "raised") =>
      /\ pc \in {"waited", "done", "unwind"}
      /\ exc = "Error"
      /\ pc \in {"done", "unwind"} => outcome = "Error"

\* set_window_size has ended with the error its predicate raised on the second
\* invocation.
C4_Witness ==
    /\ pc = "done"
    /\ helper = "set_window_size"
    /\ lastProbe = "raised"
    /\ polls = 2
    /\ outcome = "Error"

\* C5: a call of a helper built on util.wait_until_not returns normally
\* exactly when an invocation of its predicate, made while the budget was not
\* yet exceeded, returned a falsy value (the element is absent); no invocation
\* follows a falsy one; and when the invocations all returned truthy the call
\* ends by raising Timeout.
C5_WaitUntilNotContract ==
    helper \in UntilNotHelpers =>
      /\ lastProbe = "falsy" => pc \in {"waited", "done"}
      /\ WaitOver =>
           /\ exc = "none" <=> (lastProbe = "falsy" /\ elapsed <= budget)
           /\ lastProbe = "truthy" => (exc = "Timeout" /\ elapsed > budget)
           /\ exc = "Timeout" => lastProbe = "truthy"
      /\ pc = "done" => (outcome = "returned" <=> lastProbe = "falsy")

\* wait_until_no_tooltip has returned after one invocation, which found no
\* tooltip.
C5_Witness ==
    /\ pc = "done"
    /\ helper = "wait_until_no_tooltip"
    /\ outcome = "returned"
    /\ polls = 1
    /\ lastProbe = "falsy"

\* C6: Timeout is in flight only when the time elapsed in the wait has reached
\* its budget, and the poller neither invokes the predicate nor sleeps once the
\* budget is exceeded, so the invocations of one wait are bounded by its
\* budget.
C6_TimeoutOnlyAtBudget ==
    helper \in WaitHelpers =>
      /\ exc = "Timeout" => elapsed >= budget
      /\ pc \in {"poll", "sleep"} => elapsed <= budget
      /\ pc \in {"poll", "sleep", "waited"} =>
           polls * PollInterval <= budget + PollInterval

\* wait_for_caret_to_be_in has ended with Timeout after more than one
\* invocation.
C6_Witness ==
    /\ pc = "done"
    /\ helper = "wait_for_caret_to_be_in"
    /\ outcome = "Timeout"
    /\ polls >= 2
    /\ elapsed > budget

\* C7: a wait returns normally at the first truthy invocation, the N-th, and
\* Timeout is raised before the N-th invocation for no N with
\* N * PollInterval < budget.
C7_SucceedsAtNthPoll ==
    (helper \in UntilHelpers /\ WaitOver) =>
      /\ exc = "none" => lastProbe = "truthy"
      /\ exc = "Timeout" =>
           \A N \in 1..(EditorTimeout + 1) :
             N * PollInterval < budget => polls >= N

\* wait_for_validation_complete has returned at its fourth invocation.
C7_Witness ==
    /\ pc = "done"
    /\ helper = "wait_for_validation_complete"
    /\ outcome = "returned"
    /\ polls = 4
    /\ polls * PollInterval < budget

\* C8: the wait of wait_for_editor runs with the helper's timeout argument (15
\* in wedutil.py), that of wait_for_first_validation_complete with 15 and that
\* of wait_for_validation_complete with 5, whatever the default was.
C8_WaitObservesOverride ==
    pc \in {"poll", "sleep", "waited"} =>
      /\ helper = "wait_for_editor" =>
           /\ budget = arg
           /\ module = "single" => budget = SingleEditorTimeout
      /\ helper = "wait_for_first_validation_complete" =>
           budget = IF module = "package" THEN FirstValidationTimeout
                    ELSE SingleFirstValidationTimeout
      /\ helper = "wait_for_validation_complete" =>
           budget = IF module = "package" THEN ValidationTimeout
                    ELSE SingleValidationTimeout

\* wait_for_validation_complete is polling with budget 5 under a different
\* default.
C8_Witness ==
    /\ pc = "poll"
    /\ helper = "wait_for_validation_complete"
    /\ budget = ValidationTimeout
    /\ entry.timeout # ValidationTimeout
    /\ polls >= 1

\* A call is in progress (the helper has been entered and has not ended).
Running == pc \notin {"idle", "done", "unwind"}

\* C9 as stated: every call of every helper, click_until_caret_in included,
\* ends.
C9_EveryHelperEnds == Running ~> (pc = "done")

\* C9 as amended: every call of a helper other than click_until_caret_in ends.
C9_BoundedHelpersEnd ==
    (Running /\ helper # "click_until_caret_in") ~> (pc = "done")

\* wait_for_caret_to_be_in, whose condition never became true, has ended.
C9_Witness ==
    /\ pc = "done"
    /\ helper = "wait_for_caret_to_be_in"
    /\ outcome = "Timeout"
    /\ lastProbe = "falsy"

\* C10 as stated: when a call of wait_for_editor or
\* wait_for_first_validation_complete of the package has ended, the driver's
\* script timeout is not the temporary value the helper installed (where that
\* value differs from the default saved at entry).
C10_ScriptTimeoutRestored ==
    (pc = "done" /\ SetsScriptTimeout(module, helper) /\ arg # entry.timeout) =>
      script_timeout # arg

\* C11: click_until_caret_in alternates click, probe, click, probe: a click
\* precedes every probe (while a probe is due one more click than probes has
\* been dispatched, while a click is due as many), the probe asks about target,
\* which is element when the caller passed none, and the call returns exactly
\* when a probe is truthy, so that on return a click has been dispatched, the
\* last probe was truthy and clicks and probes are equal in number.
C11_ClickThenProbe ==
    helper = "click_until_caret_in" =>
      /\ target = IF given = "none" THEN "element" ELSE given
      /\ pc = "probe" => clicks = Min(polls + 1, MaxClicks)
      /\ pc = "click" => (clicks = polls /\ lastProbe \in {"none", "falsy"})
      /\ polls >= 1 => probed = target
      /\ lastProbe = "truthy" => (pc = "done" /\ outcome = "returned")
      /\ (pc = "done" /\ outcome = "returned") =>
           (lastProbe = "truthy" /\ clicks >= 1 /\ clicks = polls)

\* click_until_caret_in, called without a target, has returned after one click
\* and one probe, of the element it clicked.
C11_Witness ==
    /\ pc = "done"
    /\ helper = "click_until_caret_in"
    /\ outcome = "returned"
    /\ given = "none"
    /\ probed = "element"
    /\ clicks = 1
    /\ polls = 1

\* C12: set_window_size samples the GUI root size into orig_size before it
\* issues the resize, issues exactly one resize, and then waits; it returns
\* normally only after a probe read a size different from orig_size; every
\* probe after which it goes on waiting read orig_size, and when the probes
\* never read another size the call ends with Timeout.
C12_ResizeThenWait ==
    helper = "set_window_size" =>
      /\ pc = "resize" => (resizes = 0 /\ orig_size \in Sizes /\ polls = 0)
      /\ pc \in {"wait", "poll", "sleep", "waited"} =>
           (resizes = 1 /\ orig_size \in Sizes)
      /\ pc = "sleep" => size = orig_size
      /\ (pc = "done" /\ outcome = "returned") =>
           /\ resizes = 1
           /\ lastProbe = "truthy"
           /\ size \in Sizes
           /\ size # orig_size
      /\ (pc = "done" /\ lastProbe = "falsy") =>
           (outcome = "Timeout" /\ size = orig_size /\ resizes = 1)

\* set_window_size has returned at its second probe, the first to read a size
\* other than the one sampled before the resize.
C12_Witness ==
    /\ pc = "done"
    /\ helper = "set_window_size"
    /\ outcome = "returned"
    /\ polls = 2
    /\ resizes = 1
    /\ size # orig_size

\* C13: in wedutil.py, paste on OS X raises with nothing handed to util or
\* the driver (no "v" keystroke, no script); cut hands over the "x" keystroke
\* first and, only on OS X, then the script that triggers "cut" on the GUI
\* root; off OS X cut and paste each hand over their one keystroke and
\* nothing else.
C13_SingleFileClipboard ==
    (module = "single" /\ helper \in {"cut", "paste"}) =>
      /\ (helper = "paste" /\ pc = "done") =>
           IF osx THEN sent = <<>> /\ outcome = "Error"
                  ELSE sent = <<"v">>
      /\ (helper = "cut" /\ pc = "trigger") => (osx /\ sent = <<"x">>)
      /\ (helper = "cut" /\ pc = "done") =>
           /\ sent \in {<<"x">>, <<"x", "trigger cut">>}
           /\ Len(sent) = 2 => osx
           /\ outcome = "returned" => Len(sent) = IF osx THEN 2 ELSE 1

\* paste of wedutil.py has raised on OS X.
C13_Witness ==
    /\ module = "single"
    /\ osx
    /\ helper = "paste"
    /\ pc = "done"
    /\ outcome = "Error"
    /\ sent = <<>>

\* C14: in wait_for_editor and wait_for_first_validation_complete of the
\* package, the value saved for the reset is util's default timeout read at
\* entry; the driver's script timeout holds the temporary value from before
\* the first poll until the override block has been left, the reset happens
\* only with the block left, and after a normal return the script timeout is
\* the default read at entry, whatever it was before the call.
C14_ScriptTimeoutIsEntryDefault ==
    SetsScriptTimeout(module, helper) =>
      /\ pc \in {"with", "wait", "poll", "sleep", "waited", "reset"} =>
           (saved_timeout = entry.timeout /\ script_timeout = arg)
      /\ pc \in {"wait", "poll", "sleep", "waited"} =>
           Len(guards) = entry.depth + 1
      /\ pc = "reset" => (Len(guards) = entry.depth /\ timeout = entry.timeout)
      /\ (pc = "done" /\ outcome = "returned") =>
           script_timeout = entry.timeout

\* wait_for_editor has returned normally from a call entered with a script
\* timeout, a default timeout and a temporary value that all differ.
C14_Witness ==
    /\ pc = "done"
    /\ helper = "wait_for_editor"
    /\ module = "package"
    /\ outcome = "returned"
    /\ polls >= 1
    /\ entry.script # entry.timeout
    /\ arg # entry.timeout
    /\ arg # entry.script
    /\ script_timeout = entry.timeout

====
